---- MODULE Spec2Model ----
(***************************************************************************)
(* Model of pywemo's shared aiohttp client registry (pywemo/httpconfig.py) *)
(* and of Action invocation, synchronous and asynchronous                  *)
(* (pywemo/ouimeaux_device/api/service.py).                                *)
(***************************************************************************)
EXTENDS Integers, Sequences, FiniteSets, TLC

\* ---------------------------------------------------------------- bounds
MaxCreated == 3      \* ClientSession objects the registry may construct
NumSupplied == 1     \* distinct client sessions owned by the caller
MaxCalls == 2        \* Action invocations in one behaviour
MaxOps == 4          \* registry operations and invocations in one behaviour
MaxActions == 2      \* actions in a service description

\* ------------------------------------------------------------- constants
MAX_RETRIES == 3
REQUEST_TIMEOUT_IN_SECONDS == 10

DeviceName == "wemo"

\* ---------------------------------------------------------------- values
\* Values the module global _async_client_session can hold.  The annotation
\* at httpconfig.py:6 binds no value, so the name starts out unbound.
Unbound == [kind |-> "unbound", id |-> 0]
NoneValue == [kind |-> "None", id |-> 0]
ClientSession(n) == [kind |-> "internal", id |-> n]
SuppliedSession(n) == [kind |-> "supplied", id |-> n]

InternalSessions == {ClientSession(n) : n \in 1..MaxCreated}
SuppliedSessions == {SuppliedSession(n) : n \in 1..NumSupplied}

\* Response bodies a device can send back.
\*   wellformed: the text parses as XML
\*   depth: how many levels of first children lie under the root
\*   items: the (tag, text) children of the action-result element
MalformedBody == [wellformed |-> FALSE, depth |-> 0, items |-> <<>>]
ShallowBody == [wellformed |-> TRUE, depth |-> 1, items |-> <<>>]
EnvelopeBody == [wellformed |-> TRUE, depth |-> 2,
                 items |-> << <<"Foo", "bar">>, <<"Baz", "42">> >>]
Bodies == {MalformedBody, ShallowBody, EnvelopeBody}

\* What one POST attempt can come to: the transport fails (connection error,
\* timeout), or the round trip succeeds and carries a body.
TransportFailure == [ok |-> FALSE, body |-> MalformedBody]
Outcomes == {TransportFailure} \cup {[ok |-> TRUE, body |-> b] : b \in Bodies}

NoMessage == [device |-> "", attempts |-> 0]
NoResult == [kind |-> "none", exc |-> "", dict |-> {}, message |-> NoMessage]
Return(d) == [kind |-> "return", exc |-> "", dict |-> d, message |-> NoMessage]
Raise(e) == [kind |-> "raise", exc |-> e, dict |-> {}, message |-> NoMessage]

VARIABLES
    async_client_session,             \* httpconfig._async_client_session
    initialized_async_client_session, \* httpconfig._initialized_async_client_session
    nCreated,      \* how many ClientSession objects the registry has constructed
    closed,        \* the sessions on which the registry has called close()
    handedOut,     \* the sessions _get_async_client_session has returned to callers
    exited,        \* the atexit hook has run
    nOps,          \* registry operations and invocations made so far
    last,          \* the last registry operation: its arguments, pre-state and effects
    rediscovery_enabled, \* device.rediscovery_enabled
    kwargs,        \* the keyword arguments the invocations are made with, in call order
    calls,         \* the Action invocations
    construction   \* a Service construction: its arguments, the fetch, the object

vars == <<async_client_session, initialized_async_client_session, nCreated, closed,
          handedOut, exited, nOps, last, rediscovery_enabled, kwargs, calls, construction>>

\* What no registry operation and no invocation changes.
envVars == <<rediscovery_enabled, kwargs, construction>>

regVars == <<async_client_session, initialized_async_client_session, nCreated, closed,
             handedOut, exited, nOps, last>>

\* ------------------------------------------------------------ httpconfig
\* The registry's globals as one record, with the trace of what an operation did.
Globals == [session |-> async_client_session,
            initialized |-> initialized_async_client_session,
            nCreated |-> nCreated,
            closed |-> closed,
            trace |-> <<>>,
            raised |-> "",
            result |-> NoneValue]

\* _async_client_session.close()
Close(g) ==
    [g EXCEPT !.closed = @ \cup {g.session},
              !.trace = Append(@, <<"close", g.session>>)]

\* Mutant: the close of line 31 is missing.
initialize_without_close(g, client_session) ==
    IF client_session # NoneValue
    THEN [g EXCEPT !.session = client_session,
                   !.trace = Append(@, <<"install", client_session>>)]
    ELSE LET fresh == ClientSession(g.nCreated + 1)
         IN  [g EXCEPT !.session = fresh,
                       !.nCreated = @ + 1,
                       !.initialized = TRUE,
                       !.trace = @ \o << <<"create", fresh>>, <<"install", fresh>> >>]

\* Mutant: the close runs after the assignment, so it hits the replacement.
initialize_close_after_install(g, client_session) ==
    LET g1 == initialize_without_close(g, client_session)
    IN  IF g.initialized THEN Close(g1) ELSE g1

initialize_async_client_session(g, client_session) ==
    LET g1 == IF g.initialized THEN Close(g) ELSE g
    IN  IF client_session # NoneValue
        THEN [g1 EXCEPT !.session = client_session,
                        !.trace = Append(@, <<"install", client_session>>)]
        ELSE LET fresh == ClientSession(g1.nCreated + 1)
             IN  [g1 EXCEPT !.session = fresh,
                            !.nCreated = @ + 1,
                            !.initialized = TRUE,
                            !.trace = @ \o << <<"create", fresh>>, <<"install", fresh>> >>]

\* Mutant: the test reads `is not None`, so every call reinitializes.
get_always_initializes(g) ==
    IF g.session = Unbound
    THEN [g EXCEPT !.raised = "NameError"]
    ELSE LET g1 == initialize_async_client_session(g, NoneValue)
         IN  [g1 EXCEPT !.result = g1.session]

get_async_client_session(g) ==
    IF g.session = Unbound
    THEN [g EXCEPT !.raised = "NameError"]
    ELSE LET g1 == IF g.session = NoneValue
                   THEN initialize_async_client_session(g, NoneValue)
                   ELSE g
         IN  [g1 EXCEPT !.result = g1.session]

\* Mutant: the test of the flag is missing, so the hook reads the global at once.
cleanup_unguarded(g) ==
    IF g.session = Unbound THEN [g EXCEPT !.raised = "NameError"] ELSE Close(g)

\* Mutant: the hook closes nothing.
cleanup_without_close(g) == g

cleanup_async_client_session(g) ==
    IF g.initialized THEN Close(g) ELSE g

\* Store the globals an operation left and record the operation.
Commit(op, arg, g2) ==
    /\ async_client_session' = g2.session
    /\ initialized_async_client_session' = g2.initialized
    /\ nCreated' = g2.nCreated
    /\ closed' = g2.closed
    /\ handedOut' = IF g2.result # NoneValue THEN handedOut \cup {g2.result} ELSE handedOut
    /\ last' = [op |-> op, arg |-> arg,
                pre_session |-> async_client_session,
                pre_initialized |-> initialized_async_client_session,
                pre_closed |-> closed,
                trace |-> g2.trace, raised |-> g2.raised, result |-> g2.result]

NoOp == [op |-> "none", arg |-> NoneValue, pre_session |-> Unbound,
         pre_initialized |-> FALSE, pre_closed |-> {},
         trace |-> <<>>, raised |-> "", result |-> NoneValue]

\* ------------------------------------------------------------- service.py
\* One Action invocation.
\*   pc: "idle" (not made), "inflight" (a POST is outstanding), "done"
\*   mode: "sync" for Action.__call__, "async" for Action.call
\*   attempt: the loop variable of `for attempt in range(MAX_RETRIES)`
\*   client_session: the local of Action.call
\*   hist: the transport outcomes of the attempts made, in order
\*   log: what the invocation did, in order
\*   result: what the invocation returned or raised
\*   sent: the requests the invocation has issued, in order
IdleCall == [pc |-> "idle", mode |-> "none", attempt |-> 0,
             client_session |-> NoneValue, hist |-> <<>>, log |-> <<>>,
             sent |-> <<>>, result |-> NoResult]

\* Text is a sequence of tokens; a token is a line break, a fixed piece of the
\* envelope, or a tag carrying a name, a namespace or a value.
Token(t, name, ns, value) == [t |-> t, name |-> name, ns |-> ns, value |-> value]
NL == Token("nl", "", "", "")
Fixed(t) == Token(t, "", "", "")

\* REQUEST_TEMPLATE with its three kinds of replacement field.
REQUEST_TEMPLATE ==
    << NL,
       Fixed("<?xml?>"), NL,
       Fixed("<s:Envelope>"), NL,
       Fixed("<s:Body>"), NL,
       Token("<u:{action} xmlns:u={service}>", "", "", ""), NL,
       Fixed("{args}"), NL,
       Token("</u:{action}>", "", "", ""), NL,
       Fixed("</s:Body>"), NL,
       Fixed("</s:Envelope>"), NL >>

\* "<{0}>{1}</{0}>".format(arg, value)
ArgElement(arg, value) == Token("<arg>", arg, "", value)

\* "\n".join(...) over kwargs.items()
RECURSIVE JoinArgs(_)
JoinArgs(kw) ==
    IF kw = <<>> THEN <<>>
    ELSE IF Len(kw) = 1 THEN <<ArgElement(kw[1][1], kw[1][2])>>
    ELSE <<ArgElement(kw[1][1], kw[1][2]), NL>> \o JoinArgs(Tail(kw))

\* REQUEST_TEMPLATE.format(action=..., service=..., args=...)
RECURSIVE Format(_, _, _, _)
Format(template, action, service, args) ==
    IF template = <<>> THEN <<>>
    ELSE LET tok == Head(template)
             rest == Format(Tail(template), action, service, args)
         IN  IF tok.t = "{args}" THEN args \o rest
             ELSE IF tok.t = "<u:{action} xmlns:u={service}>"
             THEN <<[tok EXCEPT !.name = action, !.ns = service]>> \o rest
             ELSE IF tok.t = "</u:{action}>"
             THEN <<[tok EXCEPT !.name = action]>> \o rest
             ELSE <<tok>> \o rest

\* str.strip(): line breaks at both ends go.
RECURSIVE Strip(_)
Strip(text) ==
    IF text = <<>> THEN text
    ELSE IF Head(text) = NL THEN Strip(Tail(text))
    ELSE IF text[Len(text)] = NL THEN Strip(SubSeq(text, 1, Len(text) - 1))
    ELSE text

\* An action descriptor of a service description: its name and its argument
\* list, which may be absent.
ActionConfig(name, present, names) ==
    [name |-> name, argumentList |-> [present |-> present, names |-> names]]

\* Action.__init__
Action(device, service, action_config) ==
    [device |-> device,
     name |-> action_config.name,
     serviceType |-> service.serviceType,
     controlURL |-> service.controlURL,
     args |-> IF action_config.argumentList.present
              THEN {<<action_config.argumentList.names[k], 0>> :
                       k \in DOMAIN action_config.argumentList.names}
              ELSE {},
     headers |-> [ContentType |-> "text/xml",
                  SOAPACTION |-> [serviceType |-> service.serviceType,
                                  name |-> action_config.name]]]

\* The Action the invocations are made on.
TheDevice == [name |-> DeviceName]
TheService == [serviceType |-> "urn:Belkin:service:basicevent:1",
               controlURL |-> "http://wemo:49153/upnp/control/basicevent1"]
TheAction == Action(TheDevice, TheService,
                    ActionConfig("SetBinaryState", TRUE, <<"BinaryState">>))

\* A request as it leaves: where to, with which headers, body or form data
\* and timeout, and on which session (none for the requests module).
Request(url, body, data, headers, via) ==
    [url |-> url, body |-> body, data |-> data, headers |-> headers,
     timeout |-> REQUEST_TIMEOUT_IN_SECONDS, via |-> via]

\* The body Action.__call__ renders (lines 57-62).
RenderBody(self, kw) ==
    Format(REQUEST_TEMPLATE, self.name, self.serviceType, JoinArgs(kw))

Event(e, n) == [ev |-> e, n |-> n]

\* The dict the loop of __build_post_response_dict fills: a later child with
\* the same tag overwrites an earlier one.
ResponseDict(items) ==
    {<<items[i][1], items[i][2]>> : i \in
        {k \in DOMAIN items : \A j \in DOMAIN items : j > k => items[j][1] # items[k][1]}}

\* response_body is what the caller hands over: [type, body], type "str" for
\* text and "Response" for a requests.Response object.  et.fromstring accepts
\* text only; getchildren()[0] needs a child at each of two levels.
build_post_response_dict(response_body) ==
    IF response_body.type # "str" THEN Raise("TypeError")
    ELSE IF ~response_body.body.wellformed THEN Raise("ParseError")
    ELSE IF response_body.body.depth < 2 THEN Raise("IndexError")
    ELSE Return(ResponseDict(response_body.body.items))

\* Mutant: no reconnect once the attempts are used up.
handle_connection_exception_not_last(c, attempt_number) ==
    LET warned == [c EXCEPT !.log = Append(@, Event("warning", attempt_number))]
    IN  IF rediscovery_enabled /\ attempt_number + 1 < MAX_RETRIES
        THEN [warned EXCEPT !.log = Append(@, Event("reconnect", attempt_number))]
        ELSE warned

handle_connection_exception(c, attempt_number) ==
    LET warned == [c EXCEPT !.log = Append(@, Event("warning", attempt_number))]
    IN  IF rediscovery_enabled
        THEN [warned EXCEPT !.log = Append(@, Event("reconnect", attempt_number))]
        ELSE warned

\* Mutant: the error is logged and the raise is missing, so the call returns None.
max_retries_exceeded_swallowed(c) ==
    [c EXCEPT !.pc = "done",
              !.log = Append(@, Event("error", MAX_RETRIES)),
              !.result = Return({})]

max_retries_exceeded(c) ==
    [c EXCEPT !.pc = "done",
              !.log = Append(@, Event("error", MAX_RETRIES)),
              !.result = [Raise("ActionException") EXCEPT
                            !.message = [device |-> DeviceName, attempts |-> MAX_RETRIES]]]

\* The except clause of both loops: requests.exceptions.RequestException.
IsRequestException(exc) == exc = "RequestException"

\* What a failing transport raises: requests raises RequestException
\* subclasses, aiohttp raises aiohttp.ClientError or asyncio.TimeoutError.
TransportError(mode) == IF mode = "sync" THEN "RequestException" ELSE "ClientError"

Finish(c, result) == [c EXCEPT !.pc = "done", !.result = result]

\* requests.post(...): the request goes out and the caller blocks.
RequestsPost(c) ==
    [c EXCEPT !.pc = "inflight",
              !.log = Append(@, Event("post", c.attempt)),
              !.sent = Append(@, Request(TheAction.controlURL,
                                         Strip(RenderBody(TheAction, kwargs)),
                                         <<>>, TheAction.headers, NoneValue))]

\* client_session.post(...): a closed aiohttp session refuses the request with
\* RuntimeError; otherwise the request goes out and the coroutine suspends.
SessionPost(c, refused) ==
    IF refused
    THEN Finish(c, Raise("RuntimeError"))
    ELSE [c EXCEPT !.pc = "inflight",
                   !.log = Append(@, Event("post", c.attempt)),
                   !.sent = Append(@, Request(TheAction.controlURL, <<>>, kwargs,
                                              TheAction.headers, c.client_session))]

\* Mutant: `except Exception`, so a failure of the parse is retried like a
\* failure of the transport.
SyncAttemptCatchAll(c, o) ==
    LET c1 == [c EXCEPT !.hist = Append(@, o)]
        r == build_post_response_dict([type |-> "Response", body |-> o.body])
    IN  IF o.ok /\ r.kind = "return"
        THEN Finish(c1, r)
        ELSE LET c2 == handle_connection_exception(c1, c1.attempt)
             IN  IF c2.attempt + 1 < MAX_RETRIES
                 THEN RequestsPost([c2 EXCEPT !.attempt = @ + 1])
                 ELSE max_retries_exceeded(c2)

\* Mutant: the loop bound is off by one, `range(MAX_RETRIES + 1)`.
SyncAttemptOneMore(c, o) ==
    LET c1 == [c EXCEPT !.hist = Append(@, o)]
    IN  IF o.ok
        THEN Finish(c1, build_post_response_dict([type |-> "Response", body |-> o.body]))
        ELSE LET c2 == handle_connection_exception(c1, c1.attempt)
             IN  IF c2.attempt + 1 < MAX_RETRIES + 1
                 THEN RequestsPost([c2 EXCEPT !.attempt = @ + 1])
                 ELSE max_retries_exceeded(c2)

\* Action.__call__ from the return of requests.post for attempt c.attempt, with
\* outcome o, to the next requests.post or to the end of the call.
SyncAttempt(c, o) ==
    LET c1 == [c EXCEPT !.hist = Append(@, o)]
    IN  IF o.ok
        THEN Finish(c1, build_post_response_dict([type |-> "Response", body |-> o.body]))
        ELSE IF IsRequestException(TransportError("sync"))
        THEN LET c2 == handle_connection_exception(c1, c1.attempt)
             IN  IF c2.attempt + 1 < MAX_RETRIES
                 THEN RequestsPost([c2 EXCEPT !.attempt = @ + 1])
                 ELSE max_retries_exceeded(c2)
        ELSE Finish(c1, Raise(TransportError("sync")))

\* Action.call from the completion of `await response.text()` (or the failure
\* of the request) for attempt c.attempt to the next post or the end of the call.
AsyncAttempt(c, o, refused) ==
    LET c1 == [c EXCEPT !.hist = Append(@, o)]
    IN  IF o.ok
        THEN Finish(c1, build_post_response_dict([type |-> "str", body |-> o.body]))
        ELSE IF IsRequestException(TransportError("async"))
        THEN LET c2 == handle_connection_exception(c1, c1.attempt)
             IN  IF c2.attempt + 1 < MAX_RETRIES
                 THEN SessionPost([c2 EXCEPT !.attempt = @ + 1], refused)
                 ELSE max_retries_exceeded(c2)
        ELSE Finish(c1, Raise(TransportError("async")))

\* ---------------------------------------------------------------- Service
\* A dict as the sequence of its items in insertion order; d[key] = value
\* keeps the place of a key already there.
DictSet(d, key, value) ==
    IF \E k \in DOMAIN d : d[k].key = key
    THEN [k \in DOMAIN d |-> IF d[k].key = key THEN [key |-> key, value |-> value] ELSE d[k]]
    ELSE Append(d, [key |-> key, value |-> value])

\* The properties of class Service: setattr on them raises AttributeError.
ServiceProperties == {"hostname", "controlURL", "serviceType"}

\* "%s/%s" % (base, path.strip("/")); the paths of ServiceConfigs have no
\* slash at either end.
UrlJoin(base, path) == [base |-> base, path |-> path]

\* base_url.rstrip("/")
RStripSlash(base_url) == [base_url EXCEPT !.slash = FALSE]

\* The Service object while __init__ runs.
\*   raised: the exception that ended __init__, "" if none
\*   actions_is_dict: self.actions is still the dict of line 150
\*   actions: the items of that dict
\*   attributes: what setattr has set, in order
\*   fetched: the URL of the GET
NewService(config, base_url) ==
    [raised |-> "", base_url |-> RStripSlash(base_url), config |-> config,
     name |-> "", actions_is_dict |-> TRUE, actions |-> <<>>, attributes |-> <<>>,
     fetched |-> <<>>]

\* What an Action reads of its Service: the properties serviceType and controlURL.
ServiceView(self) ==
    [serviceType |-> self.config.serviceType,
     controlURL |-> UrlJoin(self.base_url, self.config.controlURL)]

\* Mutant: line 161 is missing; the action is set as an attribute only.
AddActionAttributeOnly(self, device, action) ==
    LET act == Action(device, ServiceView(self), action)
        name == action.name
    IN  IF name \in ServiceProperties
        THEN [self EXCEPT !.raised = "AttributeError"]
        ELSE [self EXCEPT !.attributes = DictSet(@, name, act)]

\* One turn of the loop at lines 158-162.
AddAction(self, device, action) ==
    LET act == Action(device, ServiceView(self), action)
        name == action.name
    IN  IF ~self.actions_is_dict
        THEN [self EXCEPT !.raised = "TypeError"]
        ELSE LET registered == [self EXCEPT !.actions = DictSet(@, name, act)]
             IN  IF name \in ServiceProperties
                 THEN [registered EXCEPT !.raised = "AttributeError"]
                 ELSE [registered EXCEPT
                          !.attributes = DictSet(@, name, act),
                          !.actions_is_dict = (name # "actions")]

RECURSIVE AddActions(_, _, _)
AddActions(self, device, actions) ==
    IF actions = <<>> \/ self.raised # "" THEN self
    ELSE AddActions(AddAction(self, device, Head(actions)), device, Tail(actions))

\* Mutant: the status is checked with raise_for_status().
ServiceRaisingForStatus(device, config, base_url, response) ==
    LET self == NewService(config, base_url)
        fetched == [self EXCEPT !.fetched = <<UrlJoin(base_url, config.SCPDURL)>>]
    IN  IF Len(config.serviceType) < 2 THEN [self EXCEPT !.raised = "IndexError"]
        ELSE IF response.raised THEN [fetched EXCEPT !.raised = "RequestException"]
        ELSE IF response.status_code # 200 THEN [fetched EXCEPT !.raised = "HTTPError"]
        ELSE fetched

\* Service.__init__.  response is what requests.get comes to: it raises, or it
\* gives a status code and a content.
Service(device, config, base_url, response) ==
    LET self == NewService(config, base_url)
    IN  IF Len(config.serviceType) < 2
        THEN [self EXCEPT !.raised = "IndexError"]
        ELSE LET named == [self EXCEPT
                             !.name = config.serviceType[Len(config.serviceType) - 1],
                             !.fetched = <<UrlJoin(base_url, config.SCPDURL)>>]
             IN  IF response.raised THEN [named EXCEPT !.raised = "RequestException"]
                 ELSE IF response.status_code # 200 THEN named
                 ELSE IF ~response.content.wellformed
                 THEN [named EXCEPT !.raised = "ParseError"]
                 ELSE IF ~response.content.hasActionList
                 THEN [named EXCEPT !.raised = "AttributeError"]
                 ELSE AddActions(named, device, response.content.actions)

\* The inputs of a construction.
ActionNames == {"GetBinaryState", "SetBinaryState", "actions", "controlURL"}
ActionConfigs ==
    {ActionConfig(n, FALSE, <<>>) : n \in ActionNames}
    \cup {ActionConfig(n, TRUE, <<"BinaryState">>) : n \in ActionNames}

RECURSIVE SeqsUpTo(_, _)
SeqsUpTo(S, n) ==
    IF n = 0 THEN {<<>>}
    ELSE SeqsUpTo(S, n - 1)
         \cup {Append(q, x) : q \in {p \in SeqsUpTo(S, n - 1) : Len(p) = n - 1}, x \in S}

Content(wellformed, hasActionList, actions) ==
    [wellformed |-> wellformed, hasActionList |-> hasActionList, actions |-> actions]
ErrorPage == Content(FALSE, FALSE, <<>>)

Responses ==
    {[raised |-> TRUE, status_code |-> 0, content |-> ErrorPage]}
    \cup {[raised |-> FALSE, status_code |-> c, content |-> ErrorPage] : c \in {204, 404, 500}}
    \cup {[raised |-> FALSE, status_code |-> 200, content |-> ErrorPage]}
    \cup {[raised |-> FALSE, status_code |-> 200, content |-> Content(TRUE, FALSE, <<>>)]}
    \cup {[raised |-> FALSE, status_code |-> 200, content |-> Content(TRUE, TRUE, d)] :
             d \in SeqsUpTo(ActionConfigs, MaxActions)}

ServiceConfigs ==
    {[serviceType |-> t, SCPDURL |-> "eventservice.xml",
      controlURL |-> "upnp/control/basicevent1"] :
        t \in {<<"urn", "Belkin", "service", "basicevent", "1">>, <<"basicevent">>}}

BaseUrls == {[text |-> "http://wemo:49153", slash |-> b] : b \in BOOLEAN}

NoConstruction ==
    [phase |-> "none", config |-> [serviceType |-> <<>>, SCPDURL |-> "", controlURL |-> ""],
     base_url |-> [text |-> "", slash |-> FALSE],
     response |-> [raised |-> FALSE, status_code |-> 0, content |-> ErrorPage],
     self |-> NewService([serviceType |-> <<>>, SCPDURL |-> "", controlURL |-> ""],
                         [text |-> "", slash |-> FALSE])]

\* Whether a post on session s can be refused: the registry has called close()
\* on it.  (close() is a coroutine function in aiohttp 3 and a plain method in
\* aiohttp 2, so the call at httpconfig.py:31 may or may not have taken effect.)
Refusals(s) == IF s \in closed THEN BOOLEAN ELSE {FALSE}

Init ==
    /\ async_client_session = Unbound
    /\ initialized_async_client_session = FALSE
    /\ nCreated = 0
    /\ closed = {}
    /\ handedOut = {}
    /\ exited = FALSE
    /\ nOps = 0
    /\ last = NoOp
    /\ rediscovery_enabled \in BOOLEAN
    /\ kwargs = << <<"a", "1">>, <<"b", "2">> >>
    /\ calls = [i \in 1..MaxCalls |-> IdleCall]
    /\ construction = NoConstruction

\* ---------------------------------------------------------------- actions
\* The application calls initialize_async_client_session, with a session of its
\* own, with one the registry handed out, or with none.
InitializeSession ==
    /\ ~exited
    /\ nOps < MaxOps
    /\ \E client_session \in {NoneValue} \cup SuppliedSessions \cup handedOut :
         LET g2 == initialize_async_client_session(Globals, client_session)
         IN  /\ g2.nCreated <= MaxCreated
             /\ Commit("initialize", client_session, g2)
    /\ nOps' = nOps + 1
    /\ UNCHANGED <<exited, envVars, calls>>

\* The application calls _get_async_client_session directly.
GetSession ==
    /\ ~exited
    /\ nOps < MaxOps
    /\ LET g2 == get_async_client_session(Globals)
       IN  /\ g2.nCreated <= MaxCreated
           /\ Commit("get", NoneValue, g2)
    /\ nOps' = nOps + 1
    /\ UNCHANGED <<exited, envVars, calls>>

\* Interpreter exit: the atexit hook runs.
Shutdown ==
    /\ ~exited
    /\ Commit("cleanup", NoneValue, cleanup_async_client_session(Globals))
    /\ exited' = TRUE
    /\ UNCHANGED <<nOps, envVars, calls>>

\* Slots are used in order.
CanStart(i) ==
    /\ ~exited
    /\ nOps < MaxOps
    /\ calls[i].pc = "idle"
    /\ i > 1 => calls[i - 1].pc # "idle"

\* A caller invokes the Action synchronously: Action.__call__ up to the first POST.
CallSync(i) ==
    /\ CanStart(i)
    /\ calls' = [calls EXCEPT ![i] = RequestsPost([IdleCall EXCEPT !.mode = "sync"])]
    /\ nOps' = nOps + 1
    /\ UNCHANGED <<async_client_session, initialized_async_client_session, nCreated,
                   closed, handedOut, exited, last, envVars>>

\* A caller awaits Action.call: up to the first suspension.
CallAsync(i) ==
    /\ CanStart(i)
    /\ LET g2 == get_async_client_session(Globals)
           c == [IdleCall EXCEPT !.mode = "async", !.client_session = g2.result]
       IN  /\ g2.nCreated <= MaxCreated
           /\ Commit("get", NoneValue, g2)
           /\ IF g2.raised # ""
              THEN calls' = [calls EXCEPT ![i] = Finish(c, Raise(g2.raised))]
              ELSE \E refused \in Refusals(g2.result) :
                     calls' = [calls EXCEPT ![i] = SessionPost(c, refused)]
    /\ nOps' = nOps + 1
    /\ UNCHANGED <<exited, envVars>>

\* The outstanding POST of a synchronous invocation comes back.
RespondSync(i) ==
    /\ ~exited
    /\ calls[i].pc = "inflight"
    /\ calls[i].mode = "sync"
    /\ \E o \in Outcomes : calls' = [calls EXCEPT ![i] = SyncAttempt(calls[i], o)]
    /\ UNCHANGED <<regVars, envVars>>

\* The outstanding POST of an asynchronous invocation comes back.
RespondAsync(i) ==
    /\ ~exited
    /\ calls[i].pc = "inflight"
    /\ calls[i].mode = "async"
    /\ \E o \in Outcomes, refused \in Refusals(calls[i].client_session) :
         calls' = [calls EXCEPT ![i] = AsyncAttempt(calls[i], o, refused)]
    /\ UNCHANGED <<regVars, envVars>>

Next ==
    \/ InitializeSession
    \/ GetSession
    \/ Shutdown
    \/ \E i \in 1..MaxCalls : CallSync(i)
    \/ \E i \in 1..MaxCalls : CallAsync(i)
    \/ \E i \in 1..MaxCalls : RespondSync(i)
    \/ \E i \in 1..MaxCalls : RespondAsync(i)

Spec == Init /\ [][Next]_vars

\* Every outstanding request comes back: with a response, an error, or the
\* timeout of REQUEST_TIMEOUT_IN_SECONDS.
FairSpec ==
    /\ Spec
    /\ \A i \in 1..MaxCalls : WF_vars(RespondSync(i)) /\ WF_vars(RespondAsync(i))

\* The keyword arguments a caller can pass: none, one, two in either order.
KwargsChoices ==
    { <<>>,
      << <<"BinaryState", "1">> >>,
      << <<"a", "1">>, <<"b", "2">> >>,
      << <<"b", "2">>, <<"a", "1">> >> }

\* Invocations with any of the keyword arguments.
InitKwargs ==
    /\ async_client_session = Unbound
    /\ initialized_async_client_session = FALSE
    /\ nCreated = 0
    /\ closed = {}
    /\ handedOut = {}
    /\ exited = FALSE
    /\ nOps = 0
    /\ last = NoOp
    /\ rediscovery_enabled \in BOOLEAN
    /\ kwargs \in KwargsChoices
    /\ calls = [i \in 1..MaxCalls |-> IdleCall]
    /\ construction = NoConstruction

SpecKwargs == InitKwargs /\ [][Next]_vars

\* A device constructs a Service: the arguments and the answer to the GET are
\* drawn, then __init__ runs.
InitService ==
    /\ async_client_session = Unbound
    /\ initialized_async_client_session = FALSE
    /\ nCreated = 0
    /\ closed = {}
    /\ handedOut = {}
    /\ exited = FALSE
    /\ nOps = 0
    /\ last = NoOp
    /\ rediscovery_enabled = FALSE
    /\ kwargs = <<>>
    /\ calls = [i \in 1..MaxCalls |-> IdleCall]
    /\ \E config \in ServiceConfigs, base_url \in BaseUrls, response \in Responses :
         construction = [NoConstruction EXCEPT !.phase = "args", !.config = config,
                                          !.base_url = base_url, !.response = response]

ConstructService ==
    /\ construction.phase = "args"
    /\ construction' = [construction EXCEPT
                     !.phase = "constructed",
                     !.self = Service(TheDevice, construction.config, construction.base_url,
                                      construction.response)]
    /\ UNCHANGED <<regVars, rediscovery_enabled, kwargs, calls>>

NextService == ConstructService

SpecService == InitService /\ [][NextService]_vars

\* ------------------------------------------------------------- measures
\* The sessions the registry constructed and has not called close() on.
OpenInternal == {ClientSession(n) : n \in 1..nCreated} \ closed

\* The sessions an operation closed, in order.
Closes(trace) == SelectSeq(trace, LAMBDA e : e[1] = "close")

CountEvents(c, e) == Cardinality({k \in DOMAIN c.log : c.log[k].ev = e})
Reconnects(c) == CountEvents(c, "reconnect")
Posts(c) == CountEvents(c, "post")

AllFailed(h) == \A k \in DOMAIN h : ~h[k].ok

\* h is n transport failures and nothing else.
FailedTimes(h, n) == Len(h) = n /\ AllFailed(h)

\* h is k-1 transport failures and then a round trip carrying body b.
SucceedsAt(h, k, b) ==
    /\ Len(h) = k
    /\ \A j \in 1..(k - 1) : ~h[j].ok
    /\ h[k] = [ok |-> TRUE, body |-> b]

\* h holds only transport failures, well-formed envelopes and malformed bodies.
Plain(h) ==
    \A k \in DOMAIN h : h[k].ok => h[k].body \in {EnvelopeBody, MalformedBody}

\* Two histories read off the same sequence of transport outcomes.
SameOutcomes(h1, h2) ==
    \A k \in DOMAIN h1 \cap DOMAIN h2 : h1[k] = h2[k]

\* The exceptions et.fromstring raises inside __build_post_response_dict.
ParseFailures == {"ParseError", "TypeError"}

\* How an invocation ended, as a caller tells the ends apart: with a mapping,
\* with ActionException, with a failure of the parse, or with another exception.
OutcomeClass(result) ==
    IF result.kind = "return" THEN "mapping"
    ELSE IF result.exc \in ParseFailures THEN "parse failure"
    ELSE result.exc

Done(i) == calls[i].pc = "done"
Sync(i) == calls[i].mode = "sync"
Async(i) == calls[i].mode = "async"
CallIds == 1..MaxCalls

\* ------------------------------------------------------------------ C1
\* C1: the registry never calls close() on a session the caller supplied,
\* whatever initialize calls and shutdown were made.
C1_NeverClosesSupplied ==
    closed \cap SuppliedSessions = {}

\* ------------------------------------------------------------------ C2
\* C2: _get_async_client_session called while no initialize call has been made
\* does not fail: it creates a default session, installs it and returns it.
C2_GetFromStartCreates ==
    (last.op = "get" /\ last.pre_session = Unbound) =>
        /\ last.raised = ""
        /\ last.result \in InternalSessions
        /\ async_client_session = last.result

\* ------------------------------------------------------------------ C3
\* C3: a finished asynchronous call and a finished synchronous call that met
\* the same transport outcomes made the same attempts, did the same things in
\* the same order (posts, warnings, reconnects) and ended the same way (the
\* same mapping, ActionException, or a failure of the parse).
C3_AsyncLikeSync ==
    \A i, j \in CallIds :
        (/\ Done(i) /\ Sync(i)
         /\ Done(j) /\ Async(j) /\ calls[j].hist # <<>>
         /\ Plain(calls[i].hist) /\ Plain(calls[j].hist)
         /\ SameOutcomes(calls[i].hist, calls[j].hist)) =>
            /\ calls[j].hist = calls[i].hist
            /\ calls[j].log = calls[i].log
            /\ OutcomeClass(calls[j].result) = OutcomeClass(calls[i].result)
            /\ calls[j].result.dict = calls[i].result.dict

\* ------------------------------------------------------------------ C4
\* C4 as stated: three failed attempts with rediscovery enabled give exactly
\* two reconnect_with_device calls, none after the final attempt.
C4_TwoReconnects ==
    \A i \in CallIds :
        (Done(i) /\ rediscovery_enabled /\ FailedTimes(calls[i].hist, MAX_RETRIES)) =>
            /\ Reconnects(calls[i]) = MAX_RETRIES - 1
            /\ \A k \in DOMAIN calls[i].log :
                 calls[i].log[k] # Event("reconnect", MAX_RETRIES - 1)

\* C4 as amended: a synchronous invocation whose MAX_RETRIES attempts all fail,
\* with rediscovery enabled, calls reconnect_with_device once after every
\* failed attempt, the final one included: MAX_RETRIES times, each right after
\* the warning for that attempt.
C4_ReconnectAfterEveryFailure ==
    \A i \in CallIds :
        (Done(i) /\ Sync(i) /\ rediscovery_enabled
         /\ FailedTimes(calls[i].hist, MAX_RETRIES)) =>
            /\ Reconnects(calls[i]) = MAX_RETRIES
            /\ \A n \in 0..(MAX_RETRIES - 1) :
                 \E k \in DOMAIN calls[i].log :
                    /\ k + 2 <= Len(calls[i].log)
                    /\ calls[i].log[k] = Event("post", n)
                    /\ calls[i].log[k + 1] = Event("warning", n)
                    /\ calls[i].log[k + 2] = Event("reconnect", n)

C4_Witness ==
    \E i \in CallIds :
        /\ Done(i) /\ Sync(i) /\ rediscovery_enabled
        /\ FailedTimes(calls[i].hist, MAX_RETRIES)

\* ------------------------------------------------------------------ C5
\* C5: a synchronous invocation never makes more than MAX_RETRIES posts; while
\* every attempt so far has failed it ends only after MAX_RETRIES posts, and
\* then by raising ActionException with the device name and MAX_RETRIES.
C5_ExhaustionRaises ==
    \A i \in CallIds :
        Sync(i) =>
            /\ Posts(calls[i]) <= MAX_RETRIES
            /\ Len(calls[i].hist) <= MAX_RETRIES
            /\ (Done(i) /\ AllFailed(calls[i].hist)) =>
                  /\ Posts(calls[i]) = MAX_RETRIES
                  /\ Len(calls[i].hist) = MAX_RETRIES
                  /\ calls[i].result.kind = "raise"
                  /\ calls[i].result.exc = "ActionException"
                  /\ calls[i].result.message =
                        [device |-> DeviceName, attempts |-> MAX_RETRIES]

C5_Witness ==
    \E i \in CallIds :
        Done(i) /\ Sync(i) /\ FailedTimes(calls[i].hist, MAX_RETRIES)

\* ------------------------------------------------------------------ C6
\* C6: an invocation whose transport first succeeds on attempt k, with a
\* well-formed envelope, after k-1 failures returns the parsed mapping, and
\* has called reconnect_with_device k-1 times if rediscovery is enabled.
C6_SuccessAfterRetries ==
    \A i \in CallIds : \A k \in 1..MAX_RETRIES :
        (Done(i) /\ SucceedsAt(calls[i].hist, k, EnvelopeBody)) =>
            /\ calls[i].result = Return(ResponseDict(EnvelopeBody.items))
            /\ Posts(calls[i]) = k
            /\ rediscovery_enabled => Reconnects(calls[i]) = k - 1

\* ------------------------------------------------------------------ C7
\* C7: with rediscovery disabled no invocation, synchronous or asynchronous,
\* calls reconnect_with_device, and an invocation that ends on a failed
\* attempt has used all MAX_RETRIES attempts.
C7_NoReconnectStillRetried ==
    ~rediscovery_enabled =>
        \A i \in CallIds :
            /\ Reconnects(calls[i]) = 0
            /\ (Done(i) /\ calls[i].hist # <<>> /\ AllFailed(calls[i].hist)) =>
                  Len(calls[i].hist) = MAX_RETRIES

\* ------------------------------------------------------------------ C8
\* C8: a round trip that succeeds with a malformed body ends the invocation at
\* once: it is the last attempt, nothing is logged and reconnect_with_device
\* is not called after its post, and the invocation raises a parse failure,
\* not ActionException.
C8_MalformedFailsAtOnce ==
    \A i \in CallIds : \A k \in DOMAIN calls[i].hist :
        calls[i].hist[k] = [ok |-> TRUE, body |-> MalformedBody] =>
            /\ k = Len(calls[i].hist)
            /\ Done(i)
            /\ calls[i].log[Len(calls[i].log)] = Event("post", k - 1)
            /\ Reconnects(calls[i]) = (IF rediscovery_enabled THEN k - 1 ELSE 0)
            /\ calls[i].result.kind = "raise"
            /\ calls[i].result.exc \in ParseFailures
            /\ calls[i].result.exc # "ActionException"

C8_Witness ==
    \E i \in CallIds :
        /\ Done(i)
        /\ Len(calls[i].hist) >= 2
        /\ calls[i].hist[Len(calls[i].hist)] = [ok |-> TRUE, body |-> MalformedBody]

\* ------------------------------------------------------------------ C9
\* C9: an initialize call made while the current session is one the registry
\* created closes that session and no other, before it installs the
\* replacement; the first initialize call closes nothing.
C9_ReinitClosesThePrior ==
    last.op = "initialize" =>
        /\ last.pre_session \in InternalSessions =>
              /\ Closes(last.trace) = << <<"close", last.pre_session>> >>
              /\ last.trace[1] = <<"close", last.pre_session>>
              /\ last.trace[Len(last.trace)][1] = "install"
              /\ closed = last.pre_closed \cup {last.pre_session}
        /\ last.pre_session = Unbound =>
              /\ Closes(last.trace) = <<>>
              /\ closed = last.pre_closed

\* Two reinitializations with default sessions have been made.
C9_Witness ==
    /\ last.op = "initialize"
    /\ last.arg = NoneValue
    /\ last.pre_session = ClientSession(2)
    /\ async_client_session = ClientSession(3)
    /\ closed = {ClientSession(1), ClientSession(2)}

\* ----------------------------------------------------------------- C10
\* C10: at most one session the registry created is open.
C10_AtMostOneOpenInternal ==
    Cardinality(OpenInternal) <= 1

C10_Witness ==
    /\ nCreated >= 2
    /\ Cardinality(OpenInternal) = 1
    /\ closed \cap InternalSessions # {}

\* ----------------------------------------------------------------- C11
\* C11: the atexit hook closes the current session when the registry created
\* it; run while no initialize call was ever made it closes nothing and does
\* not fail.
C11_CleanupClosesInternal ==
    last.op = "cleanup" =>
        /\ last.raised = ""
        /\ last.pre_session \in InternalSessions =>
              /\ Closes(last.trace) = << <<"close", last.pre_session>> >>
              /\ last.pre_session \in closed
        /\ last.pre_session = Unbound =>
              /\ last.trace = <<>>
              /\ closed = last.pre_closed
              /\ closed = {}

\* The hook has closed a session the registry created as a replacement.
C11_Witness ==
    /\ exited
    /\ last.op = "cleanup"
    /\ last.pre_session = ClientSession(2)
    /\ ClientSession(2) \in closed
    /\ ClientSession(2) \notin last.pre_closed

\* ----------------------------------------------------------------- C19
\* C19: before shutdown the current shared session is never one the registry
\* has called close() on.
C19_CurrentNeverClosed ==
    ~exited => async_client_session \notin closed

\* ----------------------------------------------------------------- C20
\* C20: once the atexit hook has run, every session the registry created has
\* been closed.
C20_NoInternalLeak ==
    exited => OpenInternal = {}

\* Shutdown after a replacement: one session closed when replaced, one by the hook.
C20_Witness ==
    /\ exited
    /\ nCreated >= 2
    /\ OpenInternal = {}
    /\ Closes(last.trace) # <<>>

\* ----------------------------------------------------------------- C12
\* The tokens of a text that are not line breaks.
NonBlank(text) == SelectSeq(text, LAMBDA tok : tok # NL)

\* The envelope for an action, a service type and keyword arguments: the fixed
\* opening, the action element in the service's namespace, one child per
\* argument in order, and the closing.
EnvelopeOf(action, service, kw) ==
    << Fixed("<?xml?>"), Fixed("<s:Envelope>"), Fixed("<s:Body>"),
       Token("<u:{action} xmlns:u={service}>", action, service, "") >>
    \o [k \in DOMAIN kw |-> Token("<arg>", kw[k][1], "", kw[k][2])]
    \o << Token("</u:{action}>", action, "", ""),
          Fixed("</s:Body>"), Fixed("</s:Envelope>") >>

IsRenderedEnvelope(r) ==
    /\ r.body # <<>>
    /\ Head(r.body) # NL
    /\ r.body[Len(r.body)] # NL
    /\ NonBlank(r.body) = EnvelopeOf(TheAction.name, TheAction.serviceType, kwargs)

\* C12: every request of an invocation, synchronous or asynchronous, carries
\* the rendered envelope with one child per keyword argument in call order,
\* and every attempt sends the same body to controlURL with the same headers.
C12_EveryPostCarriesEnvelope ==
    kwargs # <<>> =>
    \A i \in CallIds : \A k \in DOMAIN calls[i].sent :
        /\ IsRenderedEnvelope(calls[i].sent[k])
        /\ calls[i].sent[k].url = TheAction.controlURL
        /\ calls[i].sent[k].headers = TheAction.headers
        /\ calls[i].sent[k] = calls[i].sent[1]

\* The synchronous half of C12, which the code keeps.
SyncPostsCarryEnvelope ==
    \A i \in CallIds : \A k \in DOMAIN calls[i].sent :
        Sync(i) =>
            /\ IsRenderedEnvelope(calls[i].sent[k])
            /\ calls[i].sent[k].url = TheAction.controlURL
            /\ calls[i].sent[k].headers = TheAction.headers
            /\ calls[i].sent[k] = calls[i].sent[1]

\* ----------------------------------------------------------------- C17
\* C17: an asynchronous call sends every request on the session it read when
\* it started.  So while it is suspended with a request outstanding, a
\* reinitialization that replaced a session the registry created, or the
\* atexit hook, leaves that request on a session the registry has closed: the
\* call is not moved to the session installed since.
C17_SuspendedCallOnClosedSession ==
    \A i \in CallIds :
        (Async(i) /\ calls[i].pc = "inflight") =>
            /\ \A k \in DOMAIN calls[i].sent :
                 calls[i].sent[k].via = calls[i].client_session
            /\ Len(calls[i].sent) = Len(calls[i].hist) + 1
            /\ (/\ calls[i].client_session \in InternalSessions
                /\ calls[i].client_session # async_client_session) =>
                  calls[i].client_session \in closed
            /\ (/\ exited
                /\ initialized_async_client_session
                /\ calls[i].client_session = async_client_session) =>
                  calls[i].client_session \in closed

\* A reinitialization ran while the call was suspended: its request is out on
\* the closed session and the registry holds another one.
C17_Witness ==
    \E i \in CallIds :
        /\ Async(i)
        /\ calls[i].pc = "inflight"
        /\ ~exited
        /\ last.op = "initialize"
        /\ calls[i].client_session \in closed
        /\ calls[i].client_session # async_client_session
        /\ calls[i].sent[Len(calls[i].sent)].via = calls[i].client_session

\* ----------------------------------------------------------------- C18
\* A step that is a _get_async_client_session call, made directly or by the
\* start of an asynchronous call.
GetStep == last'.op = "get" /\ nOps' # nOps

\* C18: once a session is installed, a _get_async_client_session call and any
\* step of an invocation leave the session, the flag, and the sessions created
\* and closed as they are; the get returns the installed session and an
\* asynchronous call starts on it and stays on it.
C18_GetAndCallsLeaveRegistry ==
    [][(async_client_session # Unbound /\ (calls' # calls \/ GetStep)) =>
          /\ async_client_session' = async_client_session
          /\ initialized_async_client_session' = initialized_async_client_session
          /\ nCreated' = nCreated
          /\ closed' = closed
          /\ GetStep => (last'.raised = "" /\ last'.result = async_client_session
                         /\ last'.trace = <<>>)
          /\ \A i \in CallIds :
               /\ (calls[i].pc = "idle" /\ calls'[i].mode = "async") =>
                     calls'[i].client_session = async_client_session
               /\ (calls[i].pc # "idle") =>
                     calls'[i].client_session = calls[i].client_session
      ]_vars

\* An asynchronous call has failed on the installed session, which the
\* registry still holds, unclosed.
C18_Witness ==
    \E i \in CallIds :
        /\ Async(i) /\ Done(i)
        /\ calls[i].hist = <<TransportFailure>>
        /\ last.op = "get"
        /\ calls[i].client_session = async_client_session
        /\ async_client_session \notin closed

\* ----------------------------------------------------------------- C15
\* The requests of a call that have not come back.
Outstanding(c) == Len(c.sent) - Len(c.hist)

\* C15: an invocation issues at most MAX_RETRIES requests, never has two
\* outstanding, and issues request k+1 only when request k has come back as a
\* transport failure.  Every step of a call with a request outstanding either
\* ends it or uses up one of its MAX_RETRIES attempts: so, every request
\* coming back, the invocation ends after at most MAX_RETRIES of them.
C15_SequentialAndTerminates ==
    /\ [](\A i \in CallIds :
            /\ Len(calls[i].sent) <= MAX_RETRIES
            /\ Posts(calls[i]) = Len(calls[i].sent)
            /\ Outstanding(calls[i]) \in {0, 1}
            /\ Outstanding(calls[i]) = 1 <=> calls[i].pc = "inflight"
            /\ \A k \in 1..(Len(calls[i].sent) - 1) :
                 k <= Len(calls[i].hist) /\ ~calls[i].hist[k].ok)
    /\ [][\A i \in CallIds :
            (calls[i].pc = "inflight" /\ calls'[i] # calls[i]) =>
                \/ calls'[i].pc = "done"
                \/ /\ calls'[i].pc = "inflight"
                   /\ Len(calls'[i].hist) = Len(calls[i].hist) + 1
                   /\ Len(calls'[i].hist) < MAX_RETRIES
                   /\ Len(calls'[i].sent) = Len(calls[i].sent) + 1]_vars

\* The coming back of an outstanding request is a step the call can take,
\* until the process exits.
ResponseAlwaysPossible ==
    \A i \in CallIds :
        (calls[i].pc = "inflight" /\ ~exited) =>
            ENABLED (RespondSync(i) \/ RespondAsync(i))

\* The same as a liveness property of FairSpec: a call with a request
\* outstanding ends, unless the process exits first.
CallsTerminate ==
    \A i \in CallIds :
        (calls[i].pc = "inflight") ~> (calls[i].pc = "done" \/ exited)

\* A call has ended after its third request.
C15_Witness ==
    \E i \in CallIds :
        Done(i) /\ Len(calls[i].sent) = MAX_RETRIES /\ Outstanding(calls[i]) = 0

\* ----------------------------------------------------------------- C16
\* C16: every invocation has its own MAX_RETRIES attempts, whatever other
\* invocations of the Action do: one that ends on a failed attempt has made
\* all MAX_RETRIES of its own, its loop variable counts its own failures only,
\* and two finished invocations of the same kind that met the same outcomes
\* did the same and ended the same.
C16_OwnAttemptsPerCall ==
    \A i \in CallIds :
        /\ (Done(i) /\ calls[i].hist # <<>> /\ AllFailed(calls[i].hist)) =>
              Len(calls[i].sent) = MAX_RETRIES
        /\ calls[i].attempt <= Len(calls[i].hist)
        /\ \A j \in CallIds :
             (/\ Done(i) /\ Done(j)
              /\ calls[i].mode = calls[j].mode
              /\ calls[i].hist # <<>>
              /\ calls[i].hist = calls[j].hist) =>
                 /\ calls[i].log = calls[j].log
                 /\ calls[i].result = calls[j].result

\* The part of C16 the code keeps: a step of one invocation changes no other
\* invocation, and the loop variable of each counts its own failed attempts.
CallsIndependent ==
    /\ [](\A i \in CallIds :
            /\ calls[i].attempt <= Len(calls[i].hist)
            /\ \A j \in CallIds :
                 (/\ Done(i) /\ Done(j)
                  /\ calls[i].mode = calls[j].mode
                  /\ calls[i].hist # <<>>
                  /\ calls[i].hist = calls[j].hist) =>
                     /\ calls[i].log = calls[j].log
                     /\ calls[i].result = calls[j].result)
    /\ [][\A i, j \in CallIds :
            (i # j /\ calls'[i] # calls[i]) => calls'[j] = calls[j]]_vars

\* ----------------------------------------------------------------- C13
\* The construction has run, on a fetch that succeeded with a description
\* that parses and has an action list.
ConstructedFrom200 ==
    /\ construction.phase = "constructed"
    /\ construction.self.fetched # <<>>
    /\ ~construction.response.raised
    /\ construction.response.status_code = 200
    /\ construction.response.content.wellformed
    /\ construction.response.content.hasActionList

Described == construction.response.content.actions

\* self.actions is a mapping with one entry per descriptor, in document order,
\* each keyed by the descriptor's name and bound to the Action built from it.
OneEntryPerDescriptor ==
    /\ construction.self.raised = ""
    /\ construction.self.actions_is_dict
    /\ Len(construction.self.actions) = Len(Described)
    /\ \A k \in DOMAIN Described :
         /\ construction.self.actions[k].key = Described[k].name
         /\ construction.self.actions[k].value =
               Action(TheDevice, ServiceView(construction.self), Described[k])

\* C13 as stated: a description with N actions gives exactly N entries.
C13_NEntries ==
    ConstructedFrom200 => OneEntryPerDescriptor

\* Names of attributes a Service has before the loop: an action of that name
\* is set over the attribute by line 162, or cannot be set.
ServiceOwnNames ==
    ServiceProperties
    \cup {"actions", "name", "_base_url", "_config", "_svc_config", "__class__", "__dict__"}

DistinctPlainNames ==
    /\ \A j, k \in DOMAIN Described : j # k => Described[j].name # Described[k].name
    /\ \A k \in DOMAIN Described : Described[k].name \notin ServiceOwnNames

\* C13 as amended: a description whose N actions have pairwise distinct names,
\* none of them the name of an attribute the Service already has, gives exactly
\* N entries, keyed by the names in document order, each bound to the Action
\* for its descriptor.
C13_NEntriesForDistinctNames ==
    (ConstructedFrom200 /\ DistinctPlainNames) => OneEntryPerDescriptor

C13_Witness ==
    /\ ConstructedFrom200
    /\ DistinctPlainNames
    /\ Len(Described) = 2
    /\ Len(construction.self.actions) = 2

\* ----------------------------------------------------------------- C14
\* C14: when the fetch answers with a status other than 200, the construction
\* ends without raising, with an empty actions mapping and no attribute set.
C14_FailedFetchGivesNoActions ==
    (/\ construction.phase = "constructed"
     /\ ~construction.response.raised
     /\ construction.self.fetched # <<>>
     /\ construction.response.status_code # 200) =>
        /\ construction.self.raised = ""
        /\ construction.self.actions_is_dict
        /\ construction.self.actions = <<>>
        /\ construction.self.attributes = <<>>

C14_Witness ==
    /\ construction.phase = "constructed"
    /\ construction.self.fetched # <<>>
    /\ construction.response.status_code = 404
    /\ construction.self.raised = ""
    /\ construction.self.actions = <<>>

====
